---- MODULE Spec2Model ----
(***************************************************************************)
(* A model of BaseBridge (src/src/BaseBridge.ts): the static chain,        *)
(* bridge and token tables, the BaseBridge class (estimateGas,             *)
(* initiateBridge, getBridgeStatus, getOptimalRoute, calculateBridgeFees)  *)
(* and the two external                                                    *)
(* collaborators it talks to, the ethers provider and the bridge contract  *)
(* bound to the signer.                                                    *)
(*                                                                         *)
(* Conventions.  A JavaScript string that the code computes with (a        *)
(* decimal number) is a sequence of one-character strings, most            *)
(* significant digit first: '200000' is <<"2","0","0","0","0","0">>.       *)
(* A bigint is a sequence of digits 0..9, least significant first, with    *)
(* no most-significant zeros; 0n is <<>>.  Opaque strings (addresses,      *)
(* hashes, token symbols, messages) are TLA+ strings.  JavaScript's        *)
(* undefined is the string Undefined.                                      *)
(***************************************************************************)
EXTENDS Integers, Sequences, FiniteSets

VARIABLES
    signer,     \* TRUE iff the BaseBridge was constructed with a signer
    last,       \* the latest call of estimateGas / initiateBridge / getOptimalRoute /
                \* calculateBridgeFees
    receipts,   \* the provider's chain state: transaction hash -> receipt or none
    now,        \* the wall clock that Date.now() reads
    history     \* the getBridgeStatus calls made so far, oldest first

vars == <<signer, last, receipts, now, history>>

(***************************************************************************)
(* Bounds of the model.                                                    *)
(***************************************************************************)
MaxCalls == 2   \* getBridgeStatus calls kept in history
MaxTime == 1    \* ticks of the wall clock

(***************************************************************************)
(* SUPPORTED_CHAINS, and two chain ids the tables do not know.             *)
(***************************************************************************)
ETHEREUM == 1
BASE == 8453
OPTIMISM == 10
ARBITRUM == 42161
POLYGON == 137

SUPPORTED_CHAINS == {ETHEREUM, BASE, OPTIMISM, ARBITRUM, POLYGON}

ChainIds == SUPPORTED_CHAINS \cup {999, 888}

Undefined == "undefined"
ZeroAddress == "0x0000000000000000000000000000000000000000"

\* JavaScript truthiness of a string-or-undefined value.
Truthy(x) == x # Undefined /\ x # ""

\* BRIDGE_CONTRACTS[s]?.[t]
BRIDGE_CONTRACTS(s, t) ==
    CASE s = ETHEREUM /\ t = BASE     -> "0x3154Cf16ccdb4C6d922629664174b904d80F2C35"
      [] s = ETHEREUM /\ t = OPTIMISM -> "0x99C9fc46f92E8a1c0deC1b1747d010903E884bE1"
      [] s = BASE /\ t = ETHEREUM     -> "0x4200000000000000000000000000000000000010"
      [] s = BASE /\ t = OPTIMISM     -> "0x4200000000000000000000000000000000000007"
      [] OTHER                        -> Undefined

\* TOKEN_ADDRESSES[symbol]?.[chain]
TOKEN_ADDRESSES(symbol, chain) ==
    CASE symbol = "USDC" /\ chain = ETHEREUM -> "0xA0b86a33E6441E6C673C5C9C7C5C5C5C5C5C5C5C"
      [] symbol = "USDC" /\ chain = BASE     -> "0x833589fCD6eDb6E08f4c7C32D4f71b54bdA02913"
      [] symbol = "USDC" /\ chain = OPTIMISM -> "0x7F5c764cBc14f9669B88837ca1490cCa17c31607"
      [] symbol = "WETH" /\ chain = ETHEREUM -> "0xC02aaA39b223FE8D0A0e5C4F27eAD9083C756Cc2"
      [] symbol = "WETH" /\ chain = BASE     -> "0x4200000000000000000000000000000000000006"
      [] symbol = "WETH" /\ chain = OPTIMISM -> "0x4200000000000000000000000000000000000006"
      [] OTHER                               -> Undefined

(***************************************************************************)
(* Decimal strings and bigints.                                            *)
(***************************************************************************)
DigitChars == <<"0", "1", "2", "3", "4", "5", "6", "7", "8", "9">>

CharOf(d) == DigitChars[d + 1]

ValOf(c) == CHOOSE d \in 0..9 : DigitChars[d + 1] = c

Reverse(s) == [i \in 1..Len(s) |-> s[Len(s) + 1 - i]]

RECURSIVE Norm(_)
\* drop the most significant zeros of a little-endian digit sequence
Norm(a) == IF a # <<>> /\ a[Len(a)] = 0 THEN Norm(SubSeq(a, 1, Len(a) - 1)) ELSE a

\* BigInt('<decimal digits>')
BigInt(str) == Norm(Reverse([i \in 1..Len(str) |-> ValOf(str[i])]))

\* bigint.toString()
BigToString(n) == IF n = <<>> THEN <<"0">> ELSE Reverse([i \in 1..Len(n) |-> CharOf(n[i])])

RECURSIVE AddCarry(_, _, _)
AddCarry(a, b, c) ==
    IF a = <<>> /\ b = <<>>
    THEN IF c = 0 THEN <<>> ELSE <<c>>
    ELSE LET x == IF a = <<>> THEN 0 ELSE Head(a)
             y == IF b = <<>> THEN 0 ELSE Head(b)
             ra == IF a = <<>> THEN <<>> ELSE Tail(a)
             rb == IF b = <<>> THEN <<>> ELSE Tail(b)
             t == x + y + c
         IN  <<t % 10>> \o AddCarry(ra, rb, t \div 10)

\* a + b on bigints
BigAdd(a, b) == Norm(AddCarry(a, b, 0))

RECURSIVE TimesDigit(_, _, _)
\* x * d + c for a bigint x, a digit d and a carry c
TimesDigit(x, d, c) ==
    IF x = <<>>
    THEN IF c = 0 THEN <<>> ELSE <<c>>
    ELSE LET t == Head(x) * d + c
         IN  <<t % 10>> \o TimesDigit(Tail(x), d, t \div 10)

RECURSIVE BigMul(_, _)
\* a * b on bigints
BigMul(a, b) ==
    IF a = <<>> \/ b = <<>>
    THEN <<>>
    ELSE BigAdd(Norm(TimesDigit(a, Head(b), 0)), Norm(<<0>> \o BigMul(a, Tail(b))))

RECURSIVE IntOf(_)
\* the value of a small bigint (a divisor such as 10000n)
IntOf(n) == IF n = <<>> THEN 0 ELSE Head(n) + 10 * IntOf(Tail(n))

RECURSIVE DivDigits(_, _, _)
\* long division of the digits ds (most significant first) by m, with remainder r carried in
DivDigits(ds, m, r) ==
    IF ds = <<>>
    THEN <<>>
    ELSE LET t == r * 10 + Head(ds)
         IN  <<t \div m>> \o DivDigits(Tail(ds), m, t % m)

\* a / b on non-negative bigints (rounds down), for a small divisor b
BigDiv(a, b) == Norm(Reverse(DivDigits(Reverse(a), IntOf(b), 0)))

RECURSIVE TrimLeft(_)
\* while (str[0] === "0" && str[1] !== ".") str = str.substring(1)
TrimLeft(s) == IF Len(s) >= 2 /\ s[1] = "0" /\ s[2] # "." THEN TrimLeft(Tail(s)) ELSE s

RECURSIVE TrimRight(_)
\* while (str[len-1] === "0" && str[len-2] !== ".") str = str.substring(0, len-1)
TrimRight(s) ==
    IF Len(s) >= 2 /\ s[Len(s)] = "0" /\ s[Len(s) - 1] # "."
    THEN TrimRight(SubSeq(s, 1, Len(s) - 1))
    ELSE s

RECURSIVE PadLeft(_, _)
\* while (str.length <= decimals) str = "0" + str
PadLeft(s, decimals) == IF Len(s) <= decimals THEN PadLeft(<<"0">> \o s, decimals) ELSE s

\* ethers.formatUnits(wei, decimals) of a non-negative bigint, decimals > 0
formatUnits(wei, decimals) ==
    LET str == PadLeft(BigToString(wei), decimals)
        index == Len(str) - decimals
    IN  TrimRight(TrimLeft(SubSeq(str, 1, index) \o <<".">> \o SubSeq(str, index + 1, Len(str))))

\* ethers.formatEther(wei)
formatEther(wei) == formatUnits(wei, 18)

(***************************************************************************)
(* Results of a call: a value returned or an error thrown, together with   *)
(* the provider calls (calls) and the bridge-contract calls (sent) made    *)
(* on the way.                                                             *)
(***************************************************************************)
NoError == [message |-> "", a |-> 0, b |-> 0]

\* no value: what a call that threw, or no call at all, leaves behind.  Every value and
\* argument list is a record, so that any two states can be compared.
NoValue == [undefined |-> TRUE]

\* new Error(`${message} ${a} ... ${b}`)
Error(message, a, b) == [message |-> message, a |-> a, b |-> b]

Return(value, calls, sent) ==
    [outcome |-> "ok", value |-> value, error |-> NoError, calls |-> calls, sent |-> sent]

Throw(error, calls, sent) ==
    [outcome |-> "throw", value |-> NoValue, error |-> error, calls |-> calls, sent |-> sent]

\* the error a rejected provider or contract promise carries
NetworkError == Error("Network error", 0, 0)

(***************************************************************************)
(* The provider's getFeeData(): it rejects, or resolves with fee data      *)
(* whose gasPrice is null or a bigint.                                     *)
(***************************************************************************)
GasPrices ==
    { <<>>,                                  \* 0n
      <<1>>,                                 \* 1n
      <<0, 0, 0, 0, 0, 0, 0, 0, 0, 0, 2>>,   \* 20000000000n, 20 gwei
      <<7, 0, 0, 0, 0, 0, 0, 0, 0, 0, 3>> }  \* 30000000007n

FeeResponses ==
    {[ok |-> FALSE, hasGasPrice |-> FALSE, gasPrice |-> <<>>],
     [ok |-> TRUE, hasGasPrice |-> FALSE, gasPrice |-> <<>>]}
    \cup {[ok |-> TRUE, hasGasPrice |-> TRUE, gasPrice |-> g] : g \in GasPrices}

FeeCall(fee) == [method |-> "getFeeData", response |-> fee]

\* '20000000000'
DefaultGasPrice == <<"2", "0", "0", "0", "0", "0", "0", "0", "0", "0", "0">>

\* gasPrice.gasPrice || BigInt('20000000000'): null and 0n are falsy
EffectiveGasPrice(fee) ==
    IF fee.hasGasPrice /\ fee.gasPrice # <<>> THEN fee.gasPrice ELSE BigInt(DefaultGasPrice)

\* gasPrice.gasPrice?.toString() || '20000000000': only null is replaced ('0' is truthy)
ReportedGasPrice(fee) ==
    IF fee.hasGasPrice THEN BigToString(fee.gasPrice) ELSE DefaultGasPrice

\* estimateGas's time table without its Ethereum branch
EstimatedTimeNoEthereumBranch(targetChain) == IF targetChain = BASE THEN 10 ELSE 15

\* let estimatedTime = 15; if (target === BASE) 10 else if (target === ETHEREUM) 20
EstimatedTime(targetChain) ==
    IF targetChain = BASE THEN 10
    ELSE IF targetChain = ETHEREUM THEN 20
    ELSE 15

\* '200000'
GasLimit == <<"2", "0", "0", "0", "0", "0">>

\* BigInt(gasLimit) * (gasPrice.gasPrice || BigInt('20000000000'))
TotalCostWei(fee) == BigMul(BigInt(GasLimit), EffectiveGasPrice(fee))

\* estimateGas asking the provider for fee data before it looks the bridge up
estimateGasFeeFirst(config, fee) ==
    LET bridgeAddress == BRIDGE_CONTRACTS(config.sourceChain, config.targetChain)
    IN  IF ~fee.ok
        THEN Throw(NetworkError, <<FeeCall(fee)>>, <<>>)
        ELSE IF ~Truthy(bridgeAddress)
        THEN Throw(Error("Bridge not supported between chains",
                         config.sourceChain, config.targetChain), <<FeeCall(fee)>>, <<>>)
        ELSE Return([gasLimit |-> GasLimit,
                     gasPrice |-> ReportedGasPrice(fee),
                     totalCost |-> formatEther(TotalCostWei(fee)),
                     estimatedTime |-> EstimatedTime(config.targetChain)],
                    <<FeeCall(fee)>>, <<>>)

\* async estimateGas(config), with `fee` the outcome of provider.getFeeData()
estimateGas(config, fee) ==
    LET bridgeAddress == BRIDGE_CONTRACTS(config.sourceChain, config.targetChain)
    IN  IF ~Truthy(bridgeAddress)
        THEN Throw(Error("Bridge not supported between chains",
                         config.sourceChain, config.targetChain), <<>>, <<>>)
        ELSE IF ~fee.ok
        THEN Throw(NetworkError, <<FeeCall(fee)>>, <<>>)
        ELSE Return([gasLimit |-> GasLimit,
                     gasPrice |-> ReportedGasPrice(fee),
                     totalCost |-> formatEther(TotalCostWei(fee)),
                     estimatedTime |-> EstimatedTime(config.targetChain)],
                    <<FeeCall(fee)>>, <<>>)

(***************************************************************************)
(* initiateBridge.  `tx` is the outcome of the contract call, used only    *)
(* when the call is made.                                                  *)
(***************************************************************************)
TxHashes == {"0xabcd", "0xbeef"}

TxResponses == {[ok |-> FALSE, hash |-> Undefined]} \cup {[ok |-> TRUE, hash |-> h] : h \in TxHashes}

\* bridgeContract.bridgeETH(recipient, targetChain, {value: amount})
BridgeETHCall(bridgeAddress, config) ==
    [to |-> bridgeAddress, method |-> "bridgeETH", token |-> Undefined, amount |-> Undefined,
     recipient |-> config.recipient, targetChain |-> config.targetChain, value |-> config.amount]

\* bridgeContract.bridgeToken(tokenAddress, amount, recipient, targetChain)
BridgeTokenCall(bridgeAddress, config) ==
    [to |-> bridgeAddress, method |-> "bridgeToken", token |-> config.tokenAddress,
     amount |-> config.amount, recipient |-> config.recipient,
     targetChain |-> config.targetChain, value |-> Undefined]

\* initiateBridge looking the bridge up before it checks for a signer
initiateBridgeBridgeCheckFirst(hasSigner, config, tx) ==
    LET bridgeAddress == BRIDGE_CONTRACTS(config.sourceChain, config.targetChain)
        call == IF config.tokenAddress = ZeroAddress
                THEN BridgeETHCall(bridgeAddress, config)
                ELSE BridgeTokenCall(bridgeAddress, config)
    IN  IF ~Truthy(bridgeAddress)
        THEN Throw(Error("Bridge not supported between chains",
                         config.sourceChain, config.targetChain), <<>>, <<>>)
        ELSE IF ~hasSigner
        THEN Throw(Error("Signer required for bridge transactions", 0, 0), <<>>, <<>>)
        ELSE IF ~tx.ok
        THEN Throw(NetworkError, <<>>, <<call>>)
        ELSE Return([hash |-> tx.hash], <<>>, <<call>>)

\* async initiateBridge(config) on a BaseBridge with (hasSigner) or without a signer;
\* the string it resolves with, tx.hash, is the hash field of the value
initiateBridge(hasSigner, config, tx) ==
    LET bridgeAddress == BRIDGE_CONTRACTS(config.sourceChain, config.targetChain)
        call == IF config.tokenAddress = ZeroAddress
                THEN BridgeETHCall(bridgeAddress, config)
                ELSE BridgeTokenCall(bridgeAddress, config)
    IN  IF ~hasSigner
        THEN Throw(Error("Signer required for bridge transactions", 0, 0), <<>>, <<>>)
        ELSE IF ~Truthy(bridgeAddress)
        THEN Throw(Error("Bridge not supported between chains",
                         config.sourceChain, config.targetChain), <<>>, <<>>)
        ELSE IF ~tx.ok
        THEN Throw(NetworkError, <<>>, <<call>>)
        ELSE Return([hash |-> tx.hash], <<>>, <<call>>)

(***************************************************************************)
(* getOptimalRoute.  Numbers with a fraction (slippage, a cost in ether)   *)
(* are written as their decimal text.                                      *)
(***************************************************************************)
\* TOKEN_ADDRESSES[tokenSymbol]?.[fromChain] || ethers.ZeroAddress
TokenAddressOr(tokenSymbol, fromChain) ==
    IF Truthy(TOKEN_ADDRESSES(tokenSymbol, fromChain))
    THEN TOKEN_ADDRESSES(tokenSymbol, fromChain)
    ELSE ZeroAddress

\* the config getOptimalRoute hands to estimateGas
RouteConfig(fromChain, toChain, tokenSymbol, amount) ==
    [sourceChain |-> fromChain, targetChain |-> toChain,
     bridgeContract |-> BRIDGE_CONTRACTS(fromChain, toChain),
     tokenAddress |-> TokenAddressOr(tokenSymbol, fromChain),
     amount |-> amount, recipient |-> ZeroAddress]

\* getOptimalRoute reporting the multi-hop cost and slippage on a direct route
getOptimalRouteFlatCost(fromChain, toChain, tokenSymbol, amount, fee) ==
    IF Truthy(BRIDGE_CONTRACTS(fromChain, toChain))
    THEN LET gasEstimate == estimateGas(RouteConfig(fromChain, toChain, tokenSymbol, amount), fee)
         IN  IF gasEstimate.outcome = "throw"
             THEN gasEstimate
             ELSE Return([route |-> <<fromChain, toChain>>,
                          estimatedTime |-> gasEstimate.value.estimatedTime,
                          estimatedCost |-> <<"0", ".", "0", "1">>,
                          slippage |-> <<"0", ".", "3">>],
                         gasEstimate.calls, <<>>)
    ELSE IF fromChain # ETHEREUM /\ toChain # ETHEREUM
    THEN Return([route |-> <<fromChain, ETHEREUM, toChain>>,
                 estimatedTime |-> 45,
                 estimatedCost |-> <<"0", ".", "0", "1">>,
                 slippage |-> <<"0", ".", "3">>],
                <<>>, <<>>)
    ELSE Throw(Error("No route found from chain", fromChain, toChain), <<>>, <<>>)

\* async getOptimalRoute(fromChain, toChain, tokenSymbol, amount)
getOptimalRoute(fromChain, toChain, tokenSymbol, amount, fee) ==
    IF Truthy(BRIDGE_CONTRACTS(fromChain, toChain))
    THEN LET gasEstimate == estimateGas(RouteConfig(fromChain, toChain, tokenSymbol, amount), fee)
         IN  IF gasEstimate.outcome = "throw"
             THEN gasEstimate
             ELSE Return([route |-> <<fromChain, toChain>>,
                          estimatedTime |-> gasEstimate.value.estimatedTime,
                          estimatedCost |-> gasEstimate.value.totalCost,
                          slippage |-> <<"0", ".", "1">>],
                         gasEstimate.calls, <<>>)
    ELSE IF fromChain # ETHEREUM /\ toChain # ETHEREUM
    THEN Return([route |-> <<fromChain, ETHEREUM, toChain>>,
                 estimatedTime |-> 45,
                 estimatedCost |-> <<"0", ".", "0", "1">>,
                 slippage |-> <<"0", ".", "3">>],
                <<>>, <<>>)
    ELSE Throw(Error("No route found from chain", fromChain, toChain), <<>>, <<>>)

(***************************************************************************)
(* getBridgeStatus.  A receipt is absent, or present with a status;        *)
(* status 2 stands for any value other than 0 and 1.  `query` is the       *)
(* outcome of provider.getTransactionReceipt(transactionHash): it rejects, *)
(* or resolves with the receipt the chain holds (null when absent).        *)
(***************************************************************************)
NoReceipt == [present |-> FALSE, status |-> 0]

ReceiptWith(status) == [present |-> TRUE, status |-> status]

ReceiptStatuses == 0..2

ReceiptCall(query) == [method |-> "getTransactionReceipt", response |-> query]

\* the BridgeStatus literal that all three return statements build
BridgeStatus(transactionHash, status, sourceChain, timestamp) ==
    [transactionHash |-> transactionHash, status |-> status, sourceChain |-> sourceChain,
     targetChain |-> 0, amount |-> "0", timestamp |-> timestamp]

\* a receipt counted as confirmed unless its status is 0
ReceiptStateNonZero(receipt) == IF receipt.status # 0 THEN "confirmed" ELSE "failed"

\* receipt.status === 1 ? 'confirmed' : 'failed'
ReceiptState(receipt) == IF receipt.status = 1 THEN "confirmed" ELSE "failed"

\* async getBridgeStatus(transactionHash, sourceChain), Date.now() reading `time`
getBridgeStatus(transactionHash, sourceChain, query, time) ==
    IF ~query.ok
    THEN \* catch (error)
         Return(BridgeStatus(transactionHash, "failed", sourceChain, time),
                <<ReceiptCall(query)>>, <<>>)
    ELSE IF ~query.receipt.present
    THEN Return(BridgeStatus(transactionHash, "pending", sourceChain, time),
                <<ReceiptCall(query)>>, <<>>)
    ELSE Return(BridgeStatus(transactionHash, ReceiptState(query.receipt), sourceChain, time),
                <<ReceiptCall(query)>>, <<>>)

(***************************************************************************)
(* calculateBridgeFees.                                                    *)
(***************************************************************************)
\* '5000000000000000', 0.005 ETH
DefaultGasFee == <<"5", "0", "0", "0", "0", "0", "0", "0", "0", "0", "0", "0", "0", "0", "0", "0">>

\* '1000000000000000', 0.001 ETH
BaseGasFee == <<"1", "0", "0", "0", "0", "0", "0", "0", "0", "0", "0", "0", "0", "0", "0", "0">>

\* let gasFee = BigInt('5000000000000000'); if (targetChain === BASE) BigInt('1000000000000000')
GasFee(targetChain) == IF targetChain = BASE THEN BigInt(BaseGasFee) ELSE BigInt(DefaultGasFee)

\* the bridge fee taken as (amount / 10000) * 10: the division comes first
BridgeFeeDivideFirst(amountBN) ==
    BigMul(BigDiv(amountBN, BigInt(<<"1", "0", "0", "0", "0">>)), BigInt(<<"1", "0">>))

\* (amountBN * BigInt(10)) / BigInt(10000)
BridgeFee(amountBN) ==
    BigDiv(BigMul(amountBN, BigInt(<<"1", "0">>)), BigInt(<<"1", "0", "0", "0", "0">>))

\* calculateBridgeFees(amount, sourceChain, targetChain), amount a string of decimal digits
calculateBridgeFees(amount, sourceChain, targetChain) ==
    LET amountBN == BigInt(amount)
        bridgeFee == BridgeFee(amountBN)
        gasFee == GasFee(targetChain)
        totalFee == BigAdd(bridgeFee, gasFee)
    IN  Return([bridgeFee |-> BigToString(bridgeFee),
                gasFee |-> BigToString(gasFee),
                totalFee |-> BigToString(totalFee)],
               <<>>, <<>>)

(***************************************************************************)
(* The inputs the callers draw from.                                       *)
(***************************************************************************)
Amounts == {"1000000", "1000000000000000000"}

Recipients == {"0x1234567890123456789012345678901234567890", ZeroAddress}

TokenSymbols == {"USDC", "WETH", "DAI"}

ConfigTokens == {ZeroAddress, TOKEN_ADDRESSES("USDC", BASE)}

BridgeConfigs ==
    {[sourceChain |-> s, targetChain |-> t, bridgeContract |-> BRIDGE_CONTRACTS(s, t),
      tokenAddress |-> k, amount |-> a, recipient |-> r] :
        s \in ChainIds, t \in ChainIds, k \in ConfigTokens, a \in Amounts, r \in Recipients}

StatusChains == {ETHEREUM, BASE}

\* the decimal text with the digits ds, most significant first
Text(ds) == [i \in 1..Len(ds) |-> CharOf(ds[i])]

\* amounts handed to calculateBridgeFees: 0, around the 0.1% steps, 10 ether, 2^64 + 1, 2^128 - 1
FeeAmounts ==
    { Text(<<0>>),
      Text(<<9, 9, 9>>),
      Text(<<1, 0, 0, 0>>),
      Text(<<1, 0, 0, 1>>),
      Text(<<1, 9, 9, 9, 9>>),
      Text(<<1, 0, 0, 0, 0, 0, 0, 0, 0, 0, 0, 0, 0, 0, 0, 0, 0, 0, 0, 0>>),
      Text(<<1, 8, 4, 4, 6, 7, 4, 4, 0, 7, 3, 7, 0, 9, 5, 5, 1, 6, 1, 7>>),
      Text(<<3, 4, 0, 2, 8, 2, 3, 6, 6, 9, 2, 0, 9, 3, 8, 4, 6, 3, 4, 6,
             3, 3, 7, 4, 6, 0, 7, 4, 3, 1, 7, 6, 8, 2, 1, 1, 4, 5, 5>>) }

(***************************************************************************)
(* The state machine.                                                      *)
(***************************************************************************)
Called(op, args, result) == [op |-> op, args |-> args, result |-> result]

NoCall == Called("none", NoValue, Return(NoValue, <<>>, <<>>))

\* new BaseBridge(provider) or new BaseBridge(provider, signer); nothing called yet
Init ==
    /\ signer \in BOOLEAN
    /\ last = NoCall
    /\ receipts = [h \in TxHashes |-> NoReceipt]
    /\ now = 0
    /\ history = <<>>

EstimateGas ==
    \E config \in BridgeConfigs, fee \in FeeResponses :
        /\ last.op = "none"
        /\ last' = Called("estimateGas", config, estimateGas(config, fee))
        /\ UNCHANGED <<signer, receipts, now, history>>

InitiateBridge ==
    \E config \in BridgeConfigs, tx \in TxResponses :
        /\ last.op = "none"
        /\ last' = Called("initiateBridge", config, initiateBridge(signer, config, tx))
        /\ UNCHANGED <<signer, receipts, now, history>>

GetOptimalRoute ==
    \E fromChain \in ChainIds, toChain \in ChainIds, tokenSymbol \in TokenSymbols,
       amount \in Amounts, fee \in FeeResponses :
        /\ last.op = "none"
        /\ last' = Called("getOptimalRoute",
                          [fromChain |-> fromChain, toChain |-> toChain,
                           tokenSymbol |-> tokenSymbol, amount |-> amount, fee |-> fee],
                          getOptimalRoute(fromChain, toChain, tokenSymbol, amount, fee))
        /\ UNCHANGED <<signer, receipts, now, history>>

CalculateBridgeFees ==
    \E amount \in FeeAmounts, sourceChain \in ChainIds, targetChain \in ChainIds :
        /\ last.op = "none"
        /\ last' = Called("calculateBridgeFees",
                          [amount |-> amount, sourceChain |-> sourceChain,
                           targetChain |-> targetChain],
                          calculateBridgeFees(amount, sourceChain, targetChain))
        /\ UNCHANGED <<signer, receipts, now, history>>

\* a getBridgeStatus call; the receipt query may fail transiently at any call
GetBridgeStatus ==
    \E transactionHash \in TxHashes, sourceChain \in StatusChains, queryOk \in BOOLEAN :
        /\ Len(history) < MaxCalls
        /\ LET query == [ok |-> queryOk,
                         receipt |-> IF queryOk THEN receipts[transactionHash] ELSE NoReceipt]
           IN  history' = Append(history,
                   [transactionHash |-> transactionHash, sourceChain |-> sourceChain,
                    onChain |-> receipts[transactionHash],
                    result |-> getBridgeStatus(transactionHash, sourceChain, query, now)])
        /\ UNCHANGED <<signer, last, receipts, now>>

\* the chain includes the transaction: its receipt appears and never changes again
ReceiptAppears ==
    \E transactionHash \in TxHashes, status \in ReceiptStatuses :
        /\ ~receipts[transactionHash].present
        /\ receipts' = [receipts EXCEPT ![transactionHash] = ReceiptWith(status)]
        /\ UNCHANGED <<signer, last, now, history>>

\* the wall clock advances
Tick ==
    /\ now < MaxTime
    /\ now' = now + 1
    /\ UNCHANGED <<signer, last, receipts, history>>

\* the caller has its answer and builds a fresh BaseBridge for the next call
NewBridge ==
    /\ last.op # "none"
    /\ signer' \in BOOLEAN
    /\ last' = NoCall
    /\ UNCHANGED <<receipts, now, history>>

\* estimateGas, initiateBridge, getOptimalRoute and calculateBridgeFees: one call at a
\* time, each on a fresh bridge
Next == EstimateGas \/ InitiateBridge \/ GetOptimalRoute \/ CalculateBridgeFees \/ NewBridge

Spec == Init /\ [][Next]_vars

\* getBridgeStatus polled against a chain on which receipts appear
StatusNext == GetBridgeStatus \/ ReceiptAppears \/ Tick

StatusSpec == Init /\ [][StatusNext]_vars

(***************************************************************************)
(* The bridge-edge graph that the claims speak of.                         *)
(***************************************************************************)
\* (s, t) is a direct bridge edge: BRIDGE_CONTRACTS[s][t] is defined
Edge(s, t) == BRIDGE_CONTRACTS(s, t) # Undefined

Successors(S) == {t \in ChainIds : \E s \in S : Edge(s, t)}

RECURSIVE Closure(_)
Closure(S) == IF Successors(S) \subseteq S THEN S ELSE Closure(S \cup Successors(S))

\* there is a path from f to t (a chain reaches itself by the empty path)
PathExists(f, t) == t \in Closure({f})

IsRouteCall == last.op = "getOptimalRoute"

IsEstimateCall == last.op = "estimateGas"

IsInitiateCall == last.op = "initiateBridge"

Returned == last.result.outcome = "ok"

Threw(message) == last.result.outcome = "throw" /\ last.result.error.message = message

(***************************************************************************)
(* C1.  getOptimalRoute fails with 'No route found' for every pair         *)
(* (fromChain, toChain) between which the bridge-edge graph has no path,   *)
(* direct or multi-hop, unregistered chain ids included; it never returns  *)
(* a route then.                                                           *)
(***************************************************************************)
C1_NoPathNoRoute ==
    (IsRouteCall /\ ~PathExists(last.args.fromChain, last.args.toChain))
        => Threw("No route found from chain")

(***************************************************************************)
(* C2.  Every route getOptimalRoute returns is a valid hop sequence: it is *)
(* non-empty, starts at fromChain, ends at toChain, and each consecutive   *)
(* pair of it is a direct bridge edge.                                     *)
(***************************************************************************)
C2_RouteIsHopSequence ==
    (IsRouteCall /\ Returned) =>
        LET route == last.result.value.route
        IN  /\ route # <<>>
            /\ route[1] = last.args.fromChain
            /\ route[Len(route)] = last.args.toChain
            /\ \A i \in 1..(Len(route) - 1) : Edge(route[i], route[i + 1])

(***************************************************************************)
(* C3.  Over the getBridgeStatus calls for one transaction hash, with      *)
(* receipts that never change once present and queries that may fail at    *)
(* any call: while no receipt exists every call returns 'pending' with the *)
(* hash and source chain passed in, and once a call has returned           *)
(* 'confirmed' or 'failed' every later call returns that same state.       *)
(***************************************************************************)
Terminal(status) == status \in {"confirmed", "failed"}

StatusAt(i) == history[i].result.value.status

C3_StatusStable ==
    /\ \A i \in DOMAIN history :
           ~history[i].onChain.present =>
               /\ history[i].result.outcome = "ok"
               /\ StatusAt(i) = "pending"
               /\ history[i].result.value.transactionHash = history[i].transactionHash
               /\ history[i].result.value.sourceChain = history[i].sourceChain
    /\ \A i \in DOMAIN history : \A j \in DOMAIN history :
           (i < j /\ history[i].transactionHash = history[j].transactionHash
                  /\ Terminal(StatusAt(i)))
               => StatusAt(j) = StatusAt(i)

(***************************************************************************)
(* C4.  A getBridgeStatus result for a failed receipt query differs, in    *)
(* what the caller sees, from the result for a receipt that reports        *)
(* failure, for the same hash and source chain; and 'failed' is reported   *)
(* for a query error only after more than one query.  (The timestamp is    *)
(* the clock reading of the call and says nothing of the cause: the        *)
(* caller-visible state is the status.)                                    *)
(***************************************************************************)
QueryFailed(i) == ~history[i].result.calls[1].response.ok

FailureReceipt(i) ==
    /\ history[i].result.calls[1].response.ok
    /\ history[i].onChain.present
    /\ history[i].onChain.status # 1

QueriesMade(i) == Len(history[i].result.calls)

C4_ErrorDistinguishable ==
    /\ \A i \in DOMAIN history : \A j \in DOMAIN history :
           (/\ QueryFailed(i)
            /\ FailureReceipt(j)
            /\ history[i].transactionHash = history[j].transactionHash
            /\ history[i].sourceChain = history[j].sourceChain)
               => StatusAt(i) # StatusAt(j)
    /\ \A i \in DOMAIN history :
           (QueryFailed(i) /\ StatusAt(i) = "failed") => QueriesMade(i) > 1

(***************************************************************************)
(* C5.  A getBridgeStatus call whose receipt query succeeds never throws   *)
(* and returns 'pending' exactly when the chain holds no receipt,          *)
(* 'confirmed' exactly when the receipt's status is 1 and 'failed' exactly *)
(* when a receipt with any other status is present, with the hash and      *)
(* source chain passed in, targetChain 0 and amount '0'.                   *)
(***************************************************************************)
QuerySucceeded(i) == history[i].result.calls[1].response.ok

C5_StatusFollowsReceipt ==
    \A i \in DOMAIN history :
        QuerySucceeded(i) =>
            /\ history[i].result.outcome = "ok"
            /\ StatusAt(i) \in {"pending", "confirmed", "failed"}
            /\ StatusAt(i) = "pending" <=> ~history[i].onChain.present
            /\ StatusAt(i) = "confirmed" <=>
                   (history[i].onChain.present /\ history[i].onChain.status = 1)
            /\ StatusAt(i) = "failed" <=>
                   (history[i].onChain.present /\ history[i].onChain.status # 1)
            /\ history[i].result.value.transactionHash = history[i].transactionHash
            /\ history[i].result.value.sourceChain = history[i].sourceChain
            /\ history[i].result.value.targetChain = 0
            /\ history[i].result.value.amount = "0"

\* one hash polled before its receipt and again after a receipt of status 2 appeared
C5_Witness ==
    /\ Len(history) = 2
    /\ history[1].transactionHash = history[2].transactionHash
    /\ QuerySucceeded(1) /\ StatusAt(1) = "pending"
    /\ QuerySucceeded(2) /\ history[2].onChain = ReceiptWith(2) /\ StatusAt(2) = "failed"

(***************************************************************************)
(* C6.  estimateGas fails with 'Bridge not supported' for every            *)
(* (sourceChain, targetChain) without an entry in BRIDGE_CONTRACTS,        *)
(* unregistered chain ids included, and has not called the provider by     *)
(* then: getFeeData is never invoked on this path.                         *)
(***************************************************************************)
C6_UnsupportedBeforeProvider ==
    (IsEstimateCall /\ ~Edge(last.args.sourceChain, last.args.targetChain)) =>
        /\ Threw("Bridge not supported between chains")
        /\ last.result.error.a = last.args.sourceChain
        /\ last.result.error.b = last.args.targetChain
        /\ last.result.calls = <<>>

\* estimateGas for 999 -> Base has thrown
C6_Witness ==
    /\ IsEstimateCall
    /\ last.args.sourceChain = 999
    /\ last.args.targetChain = BASE
    /\ last.result.outcome = "throw"

(***************************************************************************)
(* C7.  initiateBridge sends nothing unless a signer is configured and     *)
(* BRIDGE_CONTRACTS has the pair: without a signer it fails with 'Signer   *)
(* required' for every config, with a signer and no bridge it fails with   *)
(* 'Bridge not supported', and neither bridgeETH nor bridgeToken is called *)
(* in either case.  With both, exactly one call is sent: bridgeETH when    *)
(* config.tokenAddress is the zero address, bridgeToken otherwise.         *)
(***************************************************************************)
C7_InitiateSendsOnlyWhenAllowed ==
    IsInitiateCall =>
        LET hasBridge == Edge(last.args.sourceChain, last.args.targetChain)
            sent == last.result.sent
        IN  /\ ~signer =>
                   Threw("Signer required for bridge transactions") /\ sent = <<>>
            /\ (signer /\ ~hasBridge) =>
                   Threw("Bridge not supported between chains") /\ sent = <<>>
            /\ (signer /\ hasBridge) =>
                   /\ Len(sent) = 1
                   /\ sent[1].method = IF last.args.tokenAddress = ZeroAddress
                                       THEN "bridgeETH"
                                       ELSE "bridgeToken"

\* a bridge built without a signer was asked to bridge over an unsupported pair
C7_Witness ==
    /\ IsInitiateCall
    /\ ~signer
    /\ ~Edge(last.args.sourceChain, last.args.targetChain)
    /\ last.result.outcome = "throw"

(***************************************************************************)
(* C8.  When fromChain -> toChain is no direct edge but fromChain -> 1 and *)
(* 1 -> toChain are, getOptimalRoute returns the route                     *)
(* [fromChain, 1, toChain] with slippage 0.3 and an estimatedTime that is  *)
(* the sum of the estimateGas estimatedTime of its two hops.               *)
(***************************************************************************)
HopTimes(fromChain, toChain, tokenSymbol, amount) ==
    {estimateGas(RouteConfig(fromChain, toChain, tokenSymbol, amount), fee).value.estimatedTime :
        fee \in {f \in FeeResponses : f.ok}}

C8_HubRouteSumsHopTimes ==
    (/\ IsRouteCall
     /\ ~Edge(last.args.fromChain, last.args.toChain)
     /\ Edge(last.args.fromChain, ETHEREUM)
     /\ Edge(ETHEREUM, last.args.toChain)) =>
        /\ Returned
        /\ last.result.value.route = <<last.args.fromChain, 1, last.args.toChain>>
        /\ last.result.value.slippage = <<"0", ".", "3">>
        /\ \A first \in HopTimes(last.args.fromChain, ETHEREUM,
                                 last.args.tokenSymbol, last.args.amount) :
           \A second \in HopTimes(ETHEREUM, last.args.toChain,
                                  last.args.tokenSymbol, last.args.amount) :
               last.result.value.estimatedTime = first + second

(***************************************************************************)
(* C9.  For every pair with a direct edge and every token symbol, mapped   *)
(* on fromChain or not, getOptimalRoute returns exactly the route          *)
(* [fromChain, toChain] with slippage 0.1 and with the estimatedTime and   *)
(* totalCost that estimateGas returns for that hop under the same fee      *)
(* data; when the provider gives no fee data no route is returned.         *)
(***************************************************************************)
HopConfigs(fromChain, toChain) ==
    {c \in BridgeConfigs : c.sourceChain = fromChain /\ c.targetChain = toChain}

C9_DirectRouteMatchesEstimate ==
    (IsRouteCall /\ Edge(last.args.fromChain, last.args.toChain)) =>
        IF last.args.fee.ok
        THEN /\ Returned
             /\ last.result.value.route = <<last.args.fromChain, last.args.toChain>>
             /\ last.result.value.slippage = <<"0", ".", "1">>
             /\ \A c \in HopConfigs(last.args.fromChain, last.args.toChain) :
                    /\ last.result.value.estimatedTime =
                           estimateGas(c, last.args.fee).value.estimatedTime
                    /\ last.result.value.estimatedCost =
                           estimateGas(c, last.args.fee).value.totalCost
        ELSE last.result.outcome = "throw"

\* a direct route for a symbol with no address on the source chain, at 20 gwei
C9_Witness ==
    /\ IsRouteCall
    /\ last.args.fromChain = BASE
    /\ last.args.toChain = OPTIMISM
    /\ last.args.tokenSymbol = "DAI"
    /\ Returned
    /\ last.result.value.estimatedCost = <<"0", ".", "0", "0", "4">>

(***************************************************************************)
(* C10.  For every supported direct pair and every fee data the provider   *)
(* returns, estimateGas returns gasLimit '200000' and the estimatedTime of *)
(* the target chain: 10 for Base, 20 for Ethereum, 15 for any other;       *)
(* neither depends on amount, token, recipient or gas price.               *)
(***************************************************************************)
C10_GasLimitAndTimeFixed ==
    (/\ IsEstimateCall
     /\ Edge(last.args.sourceChain, last.args.targetChain)
     /\ last.result.calls # <<>>
     /\ last.result.calls[1].response.ok) =>
        /\ Returned
        /\ last.result.value.gasLimit = <<"2", "0", "0", "0", "0", "0">>
        /\ last.result.value.estimatedTime =
               CASE last.args.targetChain = 8453 -> 10
                 [] last.args.targetChain = 1 -> 20
                 [] OTHER -> 15

\* an estimate for Base -> Ethereum, a token transfer, has returned 20 minutes
C10_Witness ==
    /\ IsEstimateCall
    /\ last.args.sourceChain = BASE
    /\ last.args.targetChain = ETHEREUM
    /\ last.args.tokenAddress # ZeroAddress
    /\ Returned
    /\ last.result.value.estimatedTime = 20

(***************************************************************************)
(* C11.  For every non-negative integer amount, 0 and amounts above 2^64   *)
(* included, and every sourceChain and targetChain, calculateBridgeFees    *)
(* returns bridgeFee = floor(amount * 10 / 10000), gasFee =                *)
(* 1000000000000000 when targetChain is Base and 5000000000000000          *)
(* otherwise, and totalFee = bridgeFee + gasFee, all exact; the result     *)
(* does not depend on sourceChain.                                         *)
(***************************************************************************)
RECURSIVE BigLess(_, _)
\* a < b on bigints
BigLess(a, b) ==
    IF Len(a) # Len(b)
    THEN Len(a) < Len(b)
    ELSE IF a = <<>>
    THEN FALSE
    ELSE IF a[Len(a)] # b[Len(b)]
    THEN a[Len(a)] < b[Len(b)]
    ELSE BigLess(SubSeq(a, 1, Len(a) - 1), SubSeq(b, 1, Len(b) - 1))

\* q = floor(n / d): q * d <= n < (q + 1) * d
IsFloorOf(q, n, d) == ~BigLess(n, BigMul(q, d)) /\ BigLess(n, BigMul(BigAdd(q, <<1>>), d))

\* a decimal text with no sign, no fraction and no leading zero
IsCanonicalText(str) ==
    /\ Len(str) >= 1
    /\ \A i \in 1..Len(str) : \E d \in 0..9 : str[i] = DigitChars[d + 1]
    /\ Len(str) > 1 => str[1] # "0"

IsFeesCall == last.op = "calculateBridgeFees"

C11_FeesExact ==
    IsFeesCall =>
        LET fees == last.result.value
            tenTimesAmount == BigMul(BigInt(last.args.amount), <<0, 1>>)
        IN  /\ Returned
            /\ IsCanonicalText(fees.bridgeFee)
            /\ IsCanonicalText(fees.totalFee)
            /\ IsFloorOf(BigInt(fees.bridgeFee), tenTimesAmount, <<0, 0, 0, 0, 1>>)
            /\ fees.gasFee =
                   IF last.args.targetChain = 8453
                   THEN <<"1", "0", "0", "0", "0", "0", "0", "0", "0", "0", "0", "0", "0",
                          "0", "0", "0">>
                   ELSE <<"5", "0", "0", "0", "0", "0", "0", "0", "0", "0", "0", "0", "0",
                          "0", "0", "0">>
            /\ BigInt(fees.totalFee) = BigAdd(BigInt(fees.bridgeFee), BigInt(fees.gasFee))

\* the fees of 2^64 + 1 bridged from an unregistered chain to Base
C11_Witness ==
    /\ IsFeesCall
    /\ last.args.amount = Text(<<1, 8, 4, 4, 6, 7, 4, 4, 0, 7, 3, 7, 0, 9, 5, 5, 1, 6, 1, 7>>)
    /\ last.args.sourceChain = 999
    /\ last.args.targetChain = BASE
    /\ last.result.value.bridgeFee = Text(<<1, 8, 4, 4, 6, 7, 4, 4, 0, 7, 3, 7, 0, 9, 5, 5, 1>>)
    /\ last.result.value.totalFee = Text(<<1, 9, 4, 4, 6, 7, 4, 4, 0, 7, 3, 7, 0, 9, 5, 5, 1>>)

(***************************************************************************)
(* C12.  For every supported direct pair and every fee data the provider   *)
(* can return (gasPrice positive, zero, or absent), the estimate that      *)
(* estimateGas returns is consistent with itself: its totalCost, in wei    *)
(* before the ether formatting, is its gasLimit times the gasPrice that    *)
(* the same estimate reports, an absent gasPrice being replaced by         *)
(* 20000000000 in both fields.  (formatEther is one-to-one, so the wei     *)
(* values agree exactly when their ether texts do.)                        *)
(***************************************************************************)
C12_CostIsLimitTimesPrice ==
    (IsEstimateCall /\ Returned) =>
        LET estimate == last.result.value
            fee == last.result.calls[1].response
        IN  /\ estimate.totalCost =
                   formatEther(BigMul(BigInt(estimate.gasLimit), BigInt(estimate.gasPrice)))
            /\ ~fee.hasGasPrice =>
                   estimate.gasPrice = <<"2", "0", "0", "0", "0", "0", "0", "0", "0", "0", "0">>

====
